---- MODULE Spec2Model ----
(***************************************************************************)
(* A model of main.py: the batch HEVC transcoder.  One run of main() walks *)
(* a directory tree, probes every video file with ffprobe and, in live     *)
(* mode, hands every file that is not HEVC to ffmpeg.  The file system,    *)
(* the two child programs and the operator (Ctrl-C, running the command    *)
(* again) are the environment.                                             *)
(*                                                                         *)
(* A file name is the sequence of its dot-separated components:            *)
(* <<"a", "mkv">> is "a.mkv", <<"", "mp4">> is ".mp4", <<"a">> is "a".     *)
(* A path is a directory (relative to the target directory) and a name.    *)
(* The content of a file is named by what ffprobe makes of it.             *)
(***************************************************************************)
EXTENDS Integers, Sequences, FiniteSets, TLC

----------------------------------------------------------------------------
(* Bounds of the model *)

\* at most this many entries exist under the target directory at the start
MaxFiles == 2
\* the operator runs the command at most this many times
MaxRuns == 2

----------------------------------------------------------------------------
(* Paths: pathlib.PurePath.suffix, with_suffix, str.lower, glob *)

Absent == "absent"

\* str.lower() on the name components the model uses
Lower(s) ==
  CASE s = "MP4" -> "mp4"
    [] s = "MKV" -> "mkv"
    [] s = "HEVC" -> "hevc"
    [] s = "H265" -> "h265"
    [] OTHER -> s

\* PurePath.suffix: the text after the last dot of the name, "" when the
\* name has no dot, starts with its only dot, or ends with a dot.  The
\* leading dot of the suffix is left implicit.
suffix(name) ==
  IF /\ Len(name) >= 2
     /\ name[Len(name)] # ""
     /\ (Len(name) >= 3 \/ name[1] # "")
  THEN name[Len(name)]
  ELSE ""

\* PurePath.with_suffix(".mp4"): the old suffix, if any, is cut off and the
\* new one appended; directory and stem are kept.
with_suffix(p, ext) ==
  IF suffix(p.name) = ""
  THEN [p EXCEPT !.name = p.name \o <<ext>>]
  ELSE [p EXCEPT !.name = SubSeq(p.name, 1, Len(p.name) - 1) \o <<ext>>]

\* the output container of transcode_to_hevc
OutputSuffix == "mp4"

OutputPath(input_file) == with_suffix(input_file, OutputSuffix)

video_extensions == {"mp4", "mkv", "avi"}

\* the glob pattern "*.*" of the last path segment: a name with a dot in it
GlobMatch(name) == Len(name) >= 2

\* entries that may exist under the target directory when the model starts
InputPaths ==
  { [dir |-> "", name |-> <<"a", "mkv">>],
    [dir |-> "", name |-> <<"a", "avi">>],
    [dir |-> "", name |-> <<"a", "mp4">>],
    [dir |-> "", name |-> <<"a", "txt">>],
    [dir |-> "", name |-> <<"", "mp4">>],
    [dir |-> "sub", name |-> <<"b", "MKV">>] }

\* the filter of the list comprehension in main: suffix.lower() in the tuple
IsVideoName(name) == Lower(suffix(name)) \in video_extensions

\* every path the run can touch: the inputs and what they are transcoded to
Universe ==
  InputPaths \cup { OutputPath(p) : p \in { q \in InputPaths : IsVideoName(q.name) } }

----------------------------------------------------------------------------
(* The collaborators: ffprobe and ffmpeg as black boxes *)

\* What an entry holds.  A codec name stands for a video file for whose
\* first video stream the prober prints that codec_name ("x-hevc" is a name
\* that contains "hevc" and is not HEVC); "corrupt" is a file ffprobe
\* rejects, "garbled" one for which ffprobe prints bytes that are not UTF-8,
\* "dir" is a directory.
CodecNames == {"hevc", "H265", "h264", "x-hevc"}
Contents == CodecNames \cup {"corrupt", "garbled", "dir"}

\* exit status of ffprobe -v error -select_streams v:0 ... on such an entry
ProbeExit(c) == IF c \in {"corrupt", "dir"} THEN 1 ELSE 0

\* standard output of ffprobe (csv=p=0): the codec name and a newline, as
\* the chunks the substring test of is_hevc can tell apart
ProbeStdout(c) ==
  IF c = "x-hevc" THEN <<"x-", "hevc", "\n">>
  ELSE IF c \in CodecNames THEN <<c, "\n">>
  ELSE <<>>

\* bytes.decode('utf-8') raises UnicodeDecodeError on these
Undecodable(c) == c = "garbled"

\* needle in text.lower(), for text given as a sequence of chunks
ContainsLower(needle, text) == \E i \in 1..Len(text) : Lower(text[i]) = needle

\* an is_hevc that forgets .lower()
CodecIsHevc_CaseSensitive(text) ==
  \E i \in 1..Len(text) : text[i] \in {"hevc", "h265"}

\* the return expression of is_hevc (line 40)
CodecIsHevc(text) == ContainsLower("hevc", text) \/ ContainsLower("h265", text)

\* the value is_hevc returns for an entry whose probe does not raise past it:
\* False from the except branch, else the substring test
is_hevc(c) == IF ProbeExit(c) # 0 THEN FALSE ELSE CodecIsHevc(ProbeStdout(c))

\* what the encoder writes when it exits 0
EncodedContent == "hevc"

\* what a killed or failed encoder may leave at the output path
PartialContent == "corrupt"

----------------------------------------------------------------------------
(* State *)

VARIABLES
  fs,               \* the tree under the target directory: path -> content
  dry_run,          \* the --dry-run flag of the command line
  run,              \* which invocation of the command this is
  pc,               \* where main is: start, loop, probing, transcode,
                    \* encoding, reported (final line logged, still inside
                    \* the try block), done (main returned), crashed
                    \* (traceback)
  video_files,      \* main's list of discovered paths
  total_files,
  transcode_count,
  idx,              \* position of the for loop in video_files, from 1
  fault,            \* the exception that left main uncaught, or "none"
  interrupted,      \* where KeyboardInterrupt was raised, or "no"
  log,              \* the records the logger has emitted in this run
  probes,           \* one record for each call of is_hevc in this run
  encodes,          \* one record for each call of subprocess.run(ffmpeg)
  snapshot,         \* the tree as it was when video_files was built
  written,          \* the paths an encoder of this run has written
  prevClean         \* the previous run was live, ended with "Transcoding
                    \* complete" and every encoder of it exited 0

vars ==
  << fs, dry_run, run, pc, video_files, total_files, transcode_count, idx,
     fault, interrupted, log, probes, encodes, snapshot, written, prevClean >>

NoPath == [dir |-> "", name |-> <<>>]

\* a record of the logger: level, message, and the values formatted into it
LogRecord(level, msg, path, count, total, pct) ==
  [level |-> level, msg |-> msg, path |-> path, count |-> count,
   total |-> total, pct |-> pct]

\* (transcode_count / total_files) * 100 formatted with :.2f, in hundredths
\* of a percent, rounded to nearest; the caller keeps total > 0
Percent(count, total) == (count * 20000 + total) \div (2 * total)

\* the paths that target_directory.glob("**/*.*") yields and the filter keeps
Discovered(tree) ==
  { p \in DOMAIN tree :
      tree[p] # Absent /\ GlobMatch(p.name) /\ IsVideoName(p.name) }

\* The orders in which the directory walk may yield a set of paths: glob
\* lists a directory before it descends, so the entries of the target
\* directory come before those of its subdirectory; within one directory
\* the order is that of the operating system's listing, which is arbitrary.
Orderings(S) ==
  { s \in [1..Cardinality(S) -> S] :
      /\ \A i, j \in DOMAIN s : i # j => s[i] # s[j]
      /\ \A i, j \in DOMAIN s : i < j => ~(s[i].dir # "" /\ s[j].dir = "") }

\* a main that forgets to test dry_run before it calls the transcoder
NeedsEncode_IgnoresDryRun(dry, result) == ~result

\* a main that forgets to test the probe's answer before it calls the transcoder
NeedsEncode_IgnoresProbe(dry, result) == ~dry

\* the branch main takes after is_hevc returned (lines 126-127, 135-137)
NeedsEncode(dry, result) == ~dry /\ ~result

\* a main that counts every file it has probed
Counts_Always(result) == TRUE

\* a main that counts the files that are HEVC already
Counts_Inverted(result) == result

\* whether a file that is not handed to the transcoder is counted (line 127)
Counts(result) == ~result

SetLast(seq, rec) == [seq EXCEPT ![Len(seq)] = rec]

Terminal == pc \in {"done", "crashed"}

----------------------------------------------------------------------------
(* Initial states: a tree of at most MaxFiles entries, a command line *)

\* An entry the filter of main drops is never opened by the run, so what it
\* holds is immaterial: it starts as a file that is no video.
InitialContents(p) == IF IsVideoName(p.name) THEN Contents ELSE {"corrupt"}

Init ==
  /\ \E S \in SUBSET InputPaths :
       /\ Cardinality(S) <= MaxFiles
       /\ \E c \in [S -> Contents] :
            /\ \A p \in S : c[p] \in InitialContents(p)
            /\ fs = [p \in Universe |-> IF p \in S THEN c[p] ELSE Absent]
  /\ dry_run \in BOOLEAN
  /\ run = 1
  /\ pc = "start"
  /\ video_files = <<>>
  /\ total_files = 0
  /\ transcode_count = 0
  /\ idx = 1
  /\ fault = "none"
  /\ interrupted = "no"
  /\ log = <<>>
  /\ probes = <<>>
  /\ encodes = <<>>
  /\ snapshot = fs
  /\ written = {}
  /\ prevClean = FALSE

----------------------------------------------------------------------------
(* main, lines 109-117 and 121-123: build the list, reset the counters *)

Discover ==
  /\ pc = "start"
  /\ \E order \in Orderings(Discovered(fs)) :
       /\ video_files' = order
       /\ total_files' = Len(order)
  /\ transcode_count' = 0
  /\ idx' = 1
  /\ snapshot' = fs
  /\ log' = IF dry_run
            THEN log \o << LogRecord("INFO", "Total files found", NoPath, 0,
                                     total_files', 0),
                           LogRecord("INFO", "Calculating files to be transcoded",
                                     NoPath, 0, 0, 0) >>
            ELSE log
  /\ pc' = "loop"
  /\ UNCHANGED << fs, dry_run, run, fault, interrupted, probes, encodes,
                  written, prevClean >>

(* is_hevc, lines 24-38: subprocess.check_output starts ffprobe *)

StartProbe ==
  /\ pc = "loop"
  /\ idx <= total_files
  /\ probes' = Append(probes, [path |-> video_files[idx], status |-> "running",
                               exit |-> 0, out |-> <<>>, result |-> FALSE])
  /\ pc' = "probing"
  /\ UNCHANGED << fs, dry_run, run, video_files, total_files, transcode_count,
                  idx, fault, interrupted, log, encodes, snapshot, written,
                  prevClean >>

\* ffprobe cannot be executed: check_output raises an OSError
\* (FileNotFoundError), which the except clause of is_hevc (line 41) and the
\* one of main (line 142) do not name
ProbeLaunchFails ==
  /\ pc = "loop"
  /\ idx <= total_files
  /\ probes' = Append(probes, [path |-> video_files[idx], status |-> "raised",
                               exit |-> 0, out |-> <<>>, result |-> FALSE])
  /\ fault' = "FileNotFoundError"
  /\ pc' = "crashed"
  /\ UNCHANGED << fs, dry_run, run, video_files, total_files, transcode_count,
                  idx, interrupted, log, encodes, snapshot, written, prevClean >>

(* is_hevc, lines 38-44, and the branch of main on its result *)

FinishProbe ==
  /\ pc = "probing"
  /\ LET file == video_files[idx]
         c == fs[file]
         result == is_hevc(c)
     IN IF ProbeExit(c) = 0 /\ Undecodable(c)
        THEN \* decode('utf-8') raises UnicodeDecodeError out of is_hevc
             /\ probes' = SetLast(probes, [path |-> file, status |-> "raised",
                                           exit |-> 0, out |-> <<>>, result |-> FALSE])
             /\ fault' = "UnicodeDecodeError"
             /\ pc' = "crashed"
             /\ UNCHANGED << log, transcode_count, idx >>
        ELSE /\ probes' = SetLast(probes, [path |-> file, status |-> "returned",
                                           exit |-> ProbeExit(c),
                                           out |-> ProbeStdout(c),
                                           result |-> result])
             /\ log' = IF ProbeExit(c) # 0
                       THEN log \o << LogRecord("ERROR", "Error checking file",
                                                file, 0, 0, 0),
                                      LogRecord("ERROR", "CalledProcessError",
                                                file, ProbeExit(c), 0, 0) >>
                       ELSE log
             /\ UNCHANGED fault
             /\ IF NeedsEncode(dry_run, result)
                THEN /\ pc' = "transcode"
                     /\ UNCHANGED << transcode_count, idx >>
                ELSE /\ pc' = "loop"
                     /\ idx' = idx + 1
                     /\ transcode_count' =
                          IF Counts(result) THEN transcode_count + 1
                                            ELSE transcode_count
  /\ UNCHANGED << fs, dry_run, run, video_files, total_files, interrupted,
                  encodes, snapshot, written, prevClean >>

\* a transcode_to_hevc that starts ffmpeg and does not wait for it
StartEncode_Detached ==
  /\ pc = "transcode"
  /\ encodes' = Append(encodes, [input |-> video_files[idx],
                                 output |-> OutputPath(video_files[idx]),
                                 status |-> "running", exit |-> 0])
  /\ transcode_count' = transcode_count + 1
  /\ idx' = idx + 1
  /\ pc' = "loop"
  /\ UNCHANGED << fs, dry_run, run, video_files, total_files, fault,
                  interrupted, log, probes, snapshot, written, prevClean >>

(* transcode_to_hevc, lines 57-91: derive the output path, start ffmpeg *)

StartEncode ==
  /\ pc = "transcode"
  /\ encodes' = Append(encodes, [input |-> video_files[idx],
                                 output |-> OutputPath(video_files[idx]),
                                 status |-> "running", exit |-> 0])
  /\ pc' = "encoding"
  /\ UNCHANGED << fs, dry_run, run, video_files, total_files, transcode_count,
                  idx, fault, interrupted, log, probes, snapshot, written,
                  prevClean >>

\* ffmpeg cannot be executed: subprocess.run raises an OSError, which
\* "except CalledProcessError" (line 92) does not catch, nor does main
EncodeLaunchFails ==
  /\ pc = "transcode"
  /\ encodes' = Append(encodes, [input |-> video_files[idx],
                                 output |-> OutputPath(video_files[idx]),
                                 status |-> "raised", exit |-> 0])
  /\ fault' = "FileNotFoundError"
  /\ pc' = "crashed"
  /\ UNCHANGED << fs, dry_run, run, video_files, total_files, transcode_count,
                  idx, interrupted, log, probes, snapshot, written, prevClean >>

\* What the encoder may leave at the output path when it does not exit 0:
\* ffmpeg opens its output only after it has opened its input, so it can
\* leave a partial file only if the input is a video and the output path is
\* no directory.
Leftovers(tree, in, out) ==
  IF tree[in] \in CodecNames /\ tree[out] # "dir"
  THEN {tree[out], PartialContent}
  ELSE {tree[out]}

(* transcode_to_hevc, lines 62-95, and main, line 137.  subprocess.run is   *)
(* called without check=True, so a non-zero exit raises nothing and line 93 *)
(* logs nothing; main counts the file either way.                           *)

FinishEncode ==
  /\ pc = "encoding"
  /\ LET e == encodes[Len(encodes)]
     IN \/ \* ffmpeg exits 0: the output path holds an HEVC file
           /\ fs[e.input] \in CodecNames
           /\ fs[e.output] # "dir"
           /\ fs' = [fs EXCEPT ![e.output] = EncodedContent]
           /\ written' = written \cup {e.output}
           /\ encodes' = SetLast(encodes, [e EXCEPT !.status = "returned",
                                                    !.exit = 0])
        \/ \* ffmpeg exits non-zero
           /\ \E c \in Leftovers(fs, e.input, e.output) :
                /\ fs' = [fs EXCEPT ![e.output] = c]
                /\ written' = IF c = fs[e.output] THEN written
                              ELSE written \cup {e.output}
           /\ encodes' = SetLast(encodes, [e EXCEPT !.status = "returned",
                                                    !.exit = 1])
  /\ transcode_count' = transcode_count + 1
  /\ idx' = idx + 1
  /\ pc' = "loop"
  /\ UNCHANGED << dry_run, run, video_files, total_files, fault, interrupted,
                  log, probes, snapshot, prevClean >>

\* a main whose two modes log each other's final line
SummaryMessage_Swapped(dry) ==
  IF dry THEN "Transcoding complete" ELSE "files would be transcoded"

\* the text of the final count line (lines 130 and 140)
SummaryMessage(dry) ==
  IF dry THEN "files would be transcoded" ELSE "Transcoding complete"

(* main, lines 129-131 and 139-141: the final count line *)

Report ==
  /\ pc = "loop"
  /\ idx > total_files
  /\ IF dry_run
     THEN IF total_files = 0
          THEN \* transcode_count / total_files raises ZeroDivisionError
               /\ fault' = "ZeroDivisionError"
               /\ pc' = "crashed"
               /\ UNCHANGED log
          ELSE /\ log' = Append(log, LogRecord("INFO", SummaryMessage(dry_run),
                                  NoPath, transcode_count, total_files,
                                  Percent(transcode_count, total_files)))
               /\ pc' = "reported"
               /\ UNCHANGED fault
     ELSE /\ log' = Append(log, LogRecord("INFO", SummaryMessage(dry_run), NoPath,
                                          transcode_count, total_files, 0))
          /\ pc' = "reported"
          /\ UNCHANGED fault
  /\ UNCHANGED << fs, dry_run, run, video_files, total_files, transcode_count,
                  idx, interrupted, probes, encodes, snapshot, written,
                  prevClean >>

(* main, line 132 and the end of the try block: main returns *)

Return ==
  /\ pc = "reported"
  /\ pc' = "done"
  /\ UNCHANGED << fs, dry_run, run, video_files, total_files, transcode_count,
                  idx, fault, interrupted, log, probes, encodes, snapshot,
                  written, prevClean >>

(* The operator presses Ctrl-C inside the try block: lines 142-143.  The    *)
(* signal may arrive at any statement of the block, also while or after the *)
(* final line is logged and before the block is left.                       *)

Interrupt ==
  /\ pc \in {"loop", "probing", "transcode", "encoding", "reported"}
  /\ interrupted' = (IF pc = "loop" THEN "between" ELSE pc)
  /\ log' = Append(log, LogRecord("WARNING", "Transcoding interrupted by user",
                                  NoPath, 0, 0, 0))
  /\ probes' = IF pc = "probing"
               THEN SetLast(probes, [probes[Len(probes)] EXCEPT
                                       !.status = "interrupted"])
               ELSE probes
  /\ IF pc = "encoding"
     THEN LET e == encodes[Len(encodes)]
          IN /\ encodes' = SetLast(encodes, [e EXCEPT !.status = "interrupted"])
             /\ \E c \in Leftovers(fs, e.input, e.output) :
                  /\ fs' = [fs EXCEPT ![e.output] = c]
                  /\ written' = IF c = fs[e.output] THEN written
                                ELSE written \cup {e.output}
     ELSE UNCHANGED << encodes, fs, written >>
  /\ pc' = "done"
  /\ UNCHANGED << dry_run, run, video_files, total_files, transcode_count, idx,
                  fault, snapshot, prevClean >>

\* Ctrl-C while the list is being built, before the try block is entered
InterruptStartup ==
  /\ pc = "start"
  /\ fault' = "KeyboardInterrupt"
  /\ pc' = "crashed"
  /\ UNCHANGED << fs, dry_run, run, video_files, total_files, transcode_count,
                  idx, interrupted, log, probes, encodes, snapshot, written,
                  prevClean >>

\* every encoder of the run that ends here ran to exit status 0, and the run
\* ended with the "Transcoding complete" line
CleanLiveRun ==
  /\ ~dry_run
  /\ pc = "done"
  /\ interrupted = "no"
  /\ \A i \in DOMAIN encodes : encodes[i].status = "returned" /\ encodes[i].exit = 0

(* The operator runs the same command line again on the tree as it is now *)

Rerun ==
  /\ Terminal
  /\ run < MaxRuns
  /\ run' = run + 1
  /\ prevClean' = CleanLiveRun
  /\ pc' = "start"
  /\ video_files' = <<>>
  /\ total_files' = 0
  /\ transcode_count' = 0
  /\ idx' = 1
  /\ fault' = "none"
  /\ interrupted' = "no"
  /\ log' = <<>>
  /\ probes' = <<>>
  /\ encodes' = <<>>
  /\ snapshot' = fs
  /\ written' = {}
  /\ UNCHANGED << fs, dry_run >>

Next ==
  \/ Discover
  \/ StartProbe
  \/ ProbeLaunchFails
  \/ FinishProbe
  \/ StartEncode
  \/ EncodeLaunchFails
  \/ FinishEncode
  \/ Report
  \/ Return
  \/ Interrupt
  \/ InterruptStartup
  \/ Rerun

Spec == Init /\ [][Next]_vars

----------------------------------------------------------------------------
(* Properties *)

ProbedPaths == [i \in DOMAIN probes |-> probes[i].path]
EncodedInputs == [i \in DOMAIN encodes |-> encodes[i].input]

\* is_hevc returned for this call (it neither raised nor was interrupted)
Returned(p) == p.status = "returned"

\* is_hevc returned and did not report HEVC
ReportedNotHevc(p) == Returned(p) /\ ~p.result

IsSummary(rec) ==
  rec.msg \in {"files would be transcoded", "Transcoding complete"}

CollaboratorFaults == {"FileNotFoundError", "UnicodeDecodeError"}

\* the entry was a video file with a readable codec name when the list was built
IsVideoFile(p) == snapshot[p] \in CodecNames

C2_LiveEncodesNonHevcInOrder ==
  ~dry_run =>
    /\ \A i \in DOMAIN encodes :
         \E j \in DOMAIN probes :
           probes[j].path = encodes[i].input /\ ReportedNotHevc(probes[j])
    /\ \A i, j \in DOMAIN encodes : i # j => encodes[i].input # encodes[j].input
    /\ ProbedPaths = SubSeq(video_files, 1, Len(probes))
    /\ (Terminal /\ interrupted = "no")
         => EncodedInputs =
              [i \in DOMAIN SelectSeq(probes, ReportedNotHevc) |->
                 SelectSeq(probes, ReportedNotHevc)[i].path]

\* a finished live run that skipped an HEVC file and encoded two others
C2_Witness ==
  /\ ~dry_run
  /\ pc = "done"
  /\ interrupted = "no"
  /\ Len(encodes) = 2
  /\ \E i \in DOMAIN probes : Returned(probes[i]) /\ probes[i].result
  /\ \E i \in DOMAIN log : log[i].msg = "Transcoding complete"

\* C3: a dry run that discovers no file and is not interrupted ends normally
\* with a summary of zero files.
C3_EmptyDryRunEndsNormally ==
  (dry_run /\ Terminal /\ total_files = 0 /\ interrupted = "no"
   /\ fault # "KeyboardInterrupt")
    => /\ pc = "done"
       /\ fault = "none"
       /\ \E i \in DOMAIN log : IsSummary(log[i]) /\ log[i].total = 0

\* C4: after an interrupt between file N and file N+1 of a list of video
\* files, no later file has been probed or encoded and the log holds a
\* summary with the counts of files 1..N.
C4_InterruptBetweenFilesSummary ==
  (pc = "done" /\ interrupted = "between" /\ 1 < idx /\ idx <= total_files
   /\ \A k \in DOMAIN video_files : IsVideoFile(video_files[k]))
    => /\ Len(probes) = idx - 1
       /\ \A i \in DOMAIN encodes :
            \E k \in 1..(idx - 1) : video_files[k] = encodes[i].input
       /\ \E i \in DOMAIN log :
            IsSummary(log[i]) /\ log[i].count = transcode_count

\* C5: no failure of ffprobe or ffmpeg on one file leaves main as an
\* unhandled fault, and a failed encode is logged.
C5_CollaboratorFailuresContained ==
  /\ fault \notin CollaboratorFaults
  /\ \A i \in DOMAIN encodes :
       (encodes[i].status = "returned" /\ encodes[i].exit # 0)
         => \E k \in DOMAIN log : log[k].level = "ERROR"
                                  /\ log[k].msg = "Error during transcoding"

\* C6: every encoder invocation on a video file has an output path different
\* from its input path.
C6_OutputDiffersFromInput ==
  \A i \in DOMAIN encodes :
    IsVideoFile(encodes[i].input) => encodes[i].output # encodes[i].input

\* C7: a live run that follows a live run in which every encoder exited 0
\* invokes the encoder for no file.
C7_SecondRunEncodesNothing ==
  (run > 1 /\ prevClean /\ ~dry_run) => encodes = <<>>

\* C8: a file that is being probed, or is about to be handed to the
\* encoder, has not been written by an encoder of this run and holds what
\* it held when the list was built.
C8_InputsUntouchedByThisRun ==
  pc \in {"probing", "transcode"}
    => /\ video_files[idx] \notin written
       /\ fs[video_files[idx]] = snapshot[video_files[idx]]

\* C9: over a list of video files, no two encoder invocations of a run
\* share an output path, and no invocation's output path is the path of
\* another discovered input.
C9_InputsIndependent ==
  (\A k \in DOMAIN video_files : IsVideoFile(video_files[k]))
    => /\ \A i, j \in DOMAIN encodes :
            i # j => encodes[i].output # encodes[j].output
       /\ \A i \in DOMAIN encodes : \A k \in DOMAIN video_files :
            video_files[k] # encodes[i].input
              => video_files[k] # encodes[i].output

\* C10: what is_hevc returns for a failed probe (ffprobe exited non-zero on
\* a file it cannot read) differs from what it returns for a file probed as
\* another codec.
C10_FailedProbeDistinct ==
  \A i, j \in DOMAIN probes :
    ( /\ Returned(probes[i]) /\ probes[i].exit # 0
      /\ snapshot[probes[i].path] = "corrupt"
      /\ Returned(probes[j]) /\ probes[j].exit = 0
      /\ ~CodecIsHevc(probes[j].out) )
      => probes[i].result # probes[j].result


NotHevcCount == Cardinality({ j \in DOMAIN probes : ReportedNotHevc(probes[j]) })
ReturnedProbes == Cardinality({ j \in DOMAIN probes : Returned(probes[j]) })
ReturnedEncodes ==
  Cardinality({ j \in DOMAIN encodes : encodes[j].status = "returned" })
Summaries == { i \in DOMAIN log : IsSummary(log[i]) }
Running(seq) == { i \in DOMAIN seq : seq[i].status = "running" }

\* C11: the final count line of a run reports as total the number of
\* discovered files and as count the number of files whose probe returned
\* "not HEVC", failed probes included and HEVC files excluded; a run that
\* ends without interrupt and without fault has logged that line.
C11_ReportedCountsExact ==
  /\ \A i \in Summaries :
       /\ log[i].total = Len(video_files)
       /\ Len(probes) = Len(video_files)
       /\ log[i].count = NotHevcCount
  /\ \A i \in DOMAIN log :
       log[i].msg = "Total files found" => log[i].total = Len(video_files)
  /\ (pc = "done" /\ interrupted = "no") => Summaries # {}

\* a finished run over an HEVC file and a failed probe reports 1/2
C11_Witness ==
  /\ pc = "done"
  /\ interrupted = "no"
  /\ \E i \in Summaries : log[i].count = 1 /\ log[i].total = 2
  /\ \E j \in DOMAIN probes : Returned(probes[j]) /\ probes[j].exit # 0
  /\ \E j \in DOMAIN probes : Returned(probes[j]) /\ probes[j].result

\* C12: an encoder that exited non-zero has been logged as an error, is
\* counted once the transcoder has returned, and is invoked once only.
C12_FailedEncodeLoggedCountedOnce ==
  \A i \in DOMAIN encodes :
    (encodes[i].status = "returned" /\ encodes[i].exit # 0)
      => /\ \E k \in DOMAIN log : log[k].level = "ERROR"
                                     /\ log[k].msg = "Error during transcoding"
         /\ transcode_count >= 1
         /\ \A j \in DOMAIN encodes :
              encodes[j].input = encodes[i].input => j = i

\* C13: a run that is interrupted inside the batch loop ends by main
\* returning, with the warning logged; a run without interrupt and without
\* collaborator fault ends by main returning.
C13_EndsNormally ==
  Terminal =>
    /\ interrupted # "no"
         => /\ pc = "done"
            /\ \E k \in DOMAIN log : log[k].level = "WARNING"
    /\ (interrupted = "no" /\ fault \notin CollaboratorFaults
        /\ fault # "KeyboardInterrupt")
         => pc = "done"

\* the prober's output is one codec name that is "hevc" or "h265" in some
\* letter case
TokenNamesHevc(out) ==
  Len(out) = 2 /\ out[2] = "\n" /\ Lower(out[1]) \in {"hevc", "h265"}

C15_DiscoveredExactlyVideoFiles ==
  pc # "start" =>
    /\ { video_files[k] : k \in DOMAIN video_files } =
         { p \in Universe :
             /\ snapshot[p] \notin {Absent, "dir"}
             /\ Lower(suffix(p.name)) \in {"mp4", "mkv", "avi"} }
    /\ \A i, j \in DOMAIN video_files : i # j => video_files[i] # video_files[j]
    /\ (probes = <<>> => fs = snapshot)

\* C16: at most one child process runs at a time; an encoder is started
\* only for a file whose probe has returned; and a file is probed only when
\* the probes and encoders of all earlier files have ended.
C16_StrictlySequential ==
  /\ Cardinality(Running(probes)) + Cardinality(Running(encodes)) <= 1
  /\ \A i \in DOMAIN encodes :
       \E j \in DOMAIN probes :
         probes[j].path = encodes[i].input /\ Returned(probes[j])
  /\ \A k \in DOMAIN probes :
       k < Len(probes)
         => /\ Returned(probes[k])
            /\ \A i \in DOMAIN encodes :
                 encodes[i].input = probes[k].path
                   => encodes[i].status = "returned"

\* the encoder of the second file runs after two probes and one encoder ended
C16_Witness ==
  /\ pc = "encoding"
  /\ Len(probes) = 2
  /\ Len(encodes) = 2
  /\ encodes[1].status = "returned"
  /\ encodes[2].status = "running"

FinalLineWellFormed ==
  /\ Cardinality(Summaries) <= 1
  /\ \A i \in Summaries :
       /\ Len(probes) = Len(video_files)
       /\ \A j \in DOMAIN probes : Returned(probes[j])
       /\ log[i].msg = IF dry_run THEN "files would be transcoded"
                                  ELSE "Transcoding complete"

\* C18 as stated: ... and a run that was interrupted or ended by a fault
\* has not logged the final count line.
C18_FinalLineNeverAfterInterrupt ==
  /\ FinalLineWellFormed
  /\ (interrupted # "no" \/ pc = "crashed") => Summaries = {}

\* C18 as amended: ... and a run that was interrupted before its final
\* count line was logged, or that ended by a fault, has not logged it.
C18_FinalLineOnceAfterAllProbes ==
  /\ FinalLineWellFormed
  /\ (interrupted \notin {"no", "reported"} \/ pc = "crashed") => Summaries = {}

\* a live run over two files was interrupted during its second encode and
\* has logged no count line
C18_Witness ==
  /\ ~dry_run
  /\ pc = "done"
  /\ interrupted = "encoding"
  /\ Len(encodes) = 2
  /\ Summaries = {}

====
